---------------------------- MODULE Spec2Model ----------------------------
(***************************************************************************)
(* A model of the snake game of src/main.py: the classes Direction, Snake, *)
(* Food and Game, driven by the loop of Game.run.                          *)
(*                                                                         *)
(* Positions are pixel pairs <<x, y>>, as in the source; a cell is         *)
(* BLOCK_SIZE pixels wide.  The size of the screen is kept in the two      *)
(* variables width and height, which no action changes.  The program runs  *)
(* on SCREEN_WIDTH x SCREEN_HEIGHT = 40 x 30 cells; specification Spec     *)
(* explores the same code exhaustively on a screen of 2*HalfCols cells by  *)
(* two rows, the least screen that holds the first snake and lets it turn, *)
(* so that walls, the snake's own body and a full board are all reached.   *)
(* Specification SpecReal is the game on the program's own screen, from    *)
(* its construction, for the first moves of the snake.                     *)
(***************************************************************************)
EXTENDS Integers, Sequences, FiniteSets, TLC

VARIABLES
    width,      \* SCREEN_WIDTH of the session under exploration
    height,     \* SCREEN_HEIGHT of the session under exploration
    body,       \* Snake.body: sequence of positions, head first
    direction,  \* Snake.direction
    grow,       \* Snake.grow
    food,       \* Food.position
    score,      \* Game.score
    running,    \* Game.running
    pc          \* where Game.run stands

vars == <<width, height, body, direction, grow, food, score, running, pc>>

-----------------------------------------------------------------------------
(* Constants of the program *)

BLOCK_SIZE == 20

SCREEN_WIDTH == 800

SCREEN_HEIGHT == 600

(* Bounds of the exploration *)

\* the explored screen is 2*HalfCols cells wide (the program's: 2*20)
HalfCols == 2

\* Game.update is explored while score < MaxScore.  On the screen of 4 x 2
\* cells the board is full when the score reaches 6, so the bound cuts
\* nothing there; it cuts the exploration of wider screens.
MaxScore == 6

\* SpecReal explores Game.update while the head is at most RealReach cells
\* away from where it starts
RealReach == 0

\* at most MaxEvents events wait in the queue when handle_input reads it
MaxEvents == 2

-----------------------------------------------------------------------------
(* class Direction *)

UP == <<0, -BLOCK_SIZE>>

DOWN == <<0, BLOCK_SIZE>>

LEFT == <<-BLOCK_SIZE, 0>>

RIGHT == <<BLOCK_SIZE, 0>>

Directions == {UP, DOWN, LEFT, RIGHT}

-----------------------------------------------------------------------------
(* class Snake *)

\* a first snake whose segments lie two cells apart
SnakeInitBody_Gaps(w, h) ==
    << <<w \div 2, h \div 2>>,
       <<w \div 2 - 2 * BLOCK_SIZE, h \div 2>>,
       <<w \div 2 - 4 * BLOCK_SIZE, h \div 2>> >>

\* Snake.__init__: three segments from the centre of the screen leftwards
SnakeInitBody(w, h) ==
    << <<w \div 2, h \div 2>>,
       <<w \div 2 - BLOCK_SIZE, h \div 2>>,
       <<w \div 2 - 2 * BLOCK_SIZE, h \div 2>> >>

\* a move that keeps the tail whatever the flag: the snake grows on every move
move_NeverPops(b, d, g) ==
    LET new_head == <<b[1][1] + d[1], b[1][2] + d[2]>>
    IN  [body |-> <<new_head>> \o b, grow |-> FALSE]

\* a move that drops the tail whatever the flag: the snake never grows
move_AlwaysPops(b, d, g) ==
    LET new_head == <<b[1][1] + d[1], b[1][2] + d[2]>>
        inserted == <<new_head>> \o b
    IN  [body |-> SubSeq(inserted, 1, Len(inserted) - 1), grow |-> FALSE]

\* a move that grows but leaves the flag grow set
move_KeepsFlag(b, d, g) ==
    LET new_head == <<b[1][1] + d[1], b[1][2] + d[2]>>
        inserted == <<new_head>> \o b
    IN  IF ~g THEN [body |-> SubSeq(inserted, 1, Len(inserted) - 1), grow |-> g]
              ELSE [body |-> inserted, grow |-> g]

\* Snake.move: the body and the flag grow after the move
move(b, d, g) ==
    LET new_head == <<b[1][1] + d[1], b[1][2] + d[2]>>
        inserted == <<new_head>> \o b
    IN  IF ~g THEN [body |-> SubSeq(inserted, 1, Len(inserted) - 1), grow |-> g]
              ELSE [body |-> inserted, grow |-> FALSE]

\* a change of direction with no test for the opposite
change_direction_NoTest(cur, new) == new

\* Snake.change_direction: the direction after the call
change_direction(cur, new) ==
    IF <<cur[1] + new[1], cur[2] + new[2]>> = <<0, 0>>
    THEN cur
    ELSE new

\* a collision check whose right wall is one pixel off (> for >=)
check_collision_RightWall(b, w, h) ==
    LET head == b[1]
    IN  \/ head \in {b[i] : i \in 2..Len(b)}
        \/ head[1] < 0
        \/ head[1] > w
        \/ head[2] < 0
        \/ head[2] >= h

\* a collision check that leaves out the last segment (body[1:-1])
check_collision_SkipsTail(b, w, h) ==
    LET head == b[1]
    IN  \/ head \in {b[i] : i \in 2..(Len(b) - 1)}
        \/ head[1] < 0
        \/ head[1] >= w
        \/ head[2] < 0
        \/ head[2] >= h

\* a collision check that looks for the head in the whole body (head in body)
check_collision_WholeBody(b, w, h) ==
    LET head == b[1]
    IN  \/ head \in {b[i] : i \in 1..Len(b)}
        \/ head[1] < 0
        \/ head[1] >= w
        \/ head[2] < 0
        \/ head[2] >= h

\* a collision check that leaves out the upper wall
check_collision_NoTop(b, w, h) ==
    LET head == b[1]
    IN  \/ head \in {b[i] : i \in 2..Len(b)}
        \/ head[1] < 0
        \/ head[1] >= w
        \/ head[2] >= h

\* a collision check that leaves out the snake's own body
check_collision_WallsOnly(b, w, h) ==
    LET head == b[1]
    IN  \/ head[1] < 0
        \/ head[1] >= w
        \/ head[2] < 0
        \/ head[2] >= h

\* Snake.check_collision
check_collision(b, w, h) ==
    LET head == b[1]
    IN  \/ head \in {b[i] : i \in 2..Len(b)}
        \/ head[1] < 0
        \/ head[1] >= w
        \/ head[2] < 0
        \/ head[2] >= h

-----------------------------------------------------------------------------
(* class Food *)

\* draws whose upper limit is one cell too far (w // BLOCK_SIZE)
Draws_OneTooFar(w, h) ==
    {<<i * BLOCK_SIZE, j * BLOCK_SIZE>> :
        i \in 0..(w \div BLOCK_SIZE),
        j \in 0..((h - BLOCK_SIZE) \div BLOCK_SIZE)}

\* the positions one iteration of the loop of generate_valid_position can draw
Draws(w, h) ==
    {<<i * BLOCK_SIZE, j * BLOCK_SIZE>> :
        i \in 0..((w - BLOCK_SIZE) \div BLOCK_SIZE),
        j \in 0..((h - BLOCK_SIZE) \div BLOCK_SIZE)}

\* a placement that does not look at the body
generate_valid_position_Anywhere(snake_body, w, h) == Draws(w, h)

\* Food.generate_valid_position: the positions the loop can return
generate_valid_position(snake_body, w, h) ==
    {p \in Draws(w, h) : p \notin {snake_body[i] : i \in 1..Len(snake_body)}}

-----------------------------------------------------------------------------
(* class Game *)

\* what pygame.event.get() can hold: the event types and keys handle_input
\* tells apart; K_OTHER is any key or event type it has no case for
Events == {"QUIT", "K_UP", "K_DOWN", "K_LEFT", "K_RIGHT", "K_ESCAPE", "K_OTHER"}

RECURSIVE EventQueuesOfLen(_)
EventQueuesOfLen(n) ==
    IF n = 0 THEN {<< >>}
    ELSE {Append(q, e) : q \in EventQueuesOfLen(n - 1), e \in Events}

EventQueues == UNION {EventQueuesOfLen(n) : n \in 0..MaxEvents}

\* one iteration of the loop of Game.handle_input, on st = [direction, running]
handle_event(e, st) ==
    CASE e = "QUIT"     -> [st EXCEPT !.running = FALSE]
      [] e = "K_UP"     -> [st EXCEPT !.direction = change_direction(st.direction, UP)]
      [] e = "K_DOWN"   -> [st EXCEPT !.direction = change_direction(st.direction, DOWN)]
      [] e = "K_LEFT"   -> [st EXCEPT !.direction = change_direction(st.direction, LEFT)]
      [] e = "K_RIGHT"  -> [st EXCEPT !.direction = change_direction(st.direction, RIGHT)]
      [] e = "K_ESCAPE" -> [st EXCEPT !.running = FALSE]
      [] OTHER          -> st

\* Game.handle_input on the queue evs: the events are handled in order
RECURSIVE handle_input(_, _)
handle_input(evs, st) ==
    IF evs = << >> THEN st
    ELSE handle_input(Tail(evs), handle_event(Head(evs), st))

\* the screen Spec explores
SmallWidth == 2 * HalfCols * BLOCK_SIZE

SmallHeight == 2 * BLOCK_SIZE

\* Game.__init__ on a screen of w x h: reset(), then Game.run enters its loop.
\* Food(self.snake.body) returns one of the free positions.
GameInit(w, h) ==
    /\ width = w
    /\ height = h
    /\ body = SnakeInitBody(w, h)
    /\ direction = RIGHT
    /\ grow = FALSE
    /\ food \in generate_valid_position(SnakeInitBody(w, h), w, h)
    /\ score = 0
    /\ running = TRUE
    /\ pc = "handle_input"

Init == GameInit(SmallWidth, SmallHeight)

\* the test of `while self.running` in Game.run: the next place of the loop
LoopTest(r) == IF r THEN "handle_input" ELSE "show_game_over"

\* an input handler that also moves the snake when an event came in
HandleInputOn_MovesOnEvent(evs) ==
    /\ pc = "handle_input"
    /\ LET st == handle_input(evs, [direction |-> direction, running |-> running])
       IN  /\ direction' = st.direction
           /\ running' = st.running
           /\ body' = IF evs = << >> THEN body
                      ELSE move(body, st.direction, grow).body
    /\ pc' = "update"
    /\ UNCHANGED <<width, height, grow, food, score>>

\* Game.handle_input, reading the queue evs
HandleInputOn(evs) ==
    /\ pc = "handle_input"
    /\ LET st == handle_input(evs, [direction |-> direction, running |-> running])
       IN  /\ direction' = st.direction
           /\ running' = st.running
    /\ pc' = "update"
    /\ UNCHANGED <<width, height, body, grow, food, score>>

HandleInput == \E evs \in EventQueues : HandleInputOn(evs)

\* an update that sets running from the collision check alone, so that a
\* game stopped by QUIT runs again
UpdateMove_SetsRunning ==
    /\ pc = "update"
    /\ score < MaxScore
    /\ LET moved == move(body, direction, grow)
       IN  /\ moved.body[1] # food
           /\ body' = moved.body
           /\ grow' = moved.grow
           /\ running' = ~check_collision(moved.body, width, height)
           /\ pc' = LoopTest(running')
    /\ UNCHANGED <<width, height, direction, food, score>>

\* Game.update when the head does not reach the food: move, then the
\* collision check
UpdateMove ==
    /\ pc = "update"
    /\ score < MaxScore
    /\ LET moved == move(body, direction, grow)
       IN  /\ moved.body[1] # food
           /\ body' = moved.body
           /\ grow' = moved.grow
           /\ running' = IF check_collision(moved.body, width, height)
                         THEN FALSE ELSE running
           /\ pc' = LoopTest(running')
    /\ UNCHANGED <<width, height, direction, food, score>>

\* an update that counts two for one food
UpdateEat_CountsTwo ==
    /\ pc = "update"
    /\ score < MaxScore
    /\ LET moved == move(body, direction, grow)
       IN  /\ moved.body[1] = food
           /\ body' = moved.body
    /\ grow' = TRUE
    /\ score' = score + 2
    /\ pc' = "generate"
    /\ UNCHANGED <<width, height, direction, food, running>>

\* Game.update when the head reaches the food: move, flag the growth, count
\* the score and enter Food(self.snake.body)
UpdateEat ==
    /\ pc = "update"
    /\ score < MaxScore
    /\ LET moved == move(body, direction, grow)
       IN  /\ moved.body[1] = food
           /\ body' = moved.body
    /\ grow' = TRUE
    /\ score' = score + 1
    /\ pc' = "generate"
    /\ UNCHANGED <<width, height, direction, food, running>>

\* one iteration of the loop of generate_valid_position that draws a position
\* of the body: the loop goes round
GenerateRetry ==
    /\ pc = "generate"
    /\ \E p \in Draws(width, height) :
          p \in {body[i] : i \in 1..Len(body)}
    /\ UNCHANGED vars

\* the iteration that draws the free position p: Food() returns, and
\* Game.update goes on to its collision check
GenerateAcceptAt(p) ==
    /\ pc = "generate"
    /\ p \in generate_valid_position(body, width, height)
    /\ food' = p
    /\ running' = IF check_collision(body, width, height) THEN FALSE ELSE running
    /\ pc' = LoopTest(running')
    /\ UNCHANGED <<width, height, body, direction, grow, score>>

GenerateAccept == \E p \in Draws(width, height) : GenerateAcceptAt(p)

\* a reset that keeps the score
reset_KeepsScore ==
    /\ pc \in {"handle_input", "show_game_over"}
    /\ body' = SnakeInitBody(width, height)
    /\ direction' = RIGHT
    /\ grow' = FALSE
    /\ food' \in generate_valid_position(body', width, height)
    /\ running' = TRUE
    /\ pc' = "handle_input"
    /\ UNCHANGED <<width, height, score>>

\* Game.reset, called again between two frames or after the game is over:
\* a new snake, a food off its body, score 0, running
reset ==
    /\ pc \in {"handle_input", "show_game_over"}
    /\ body' = SnakeInitBody(width, height)
    /\ direction' = RIGHT
    /\ grow' = FALSE
    /\ food' \in generate_valid_position(body', width, height)
    /\ score' = 0
    /\ running' = TRUE
    /\ pc' = "handle_input"
    /\ UNCHANGED <<width, height>>

Next ==
    \/ HandleInput
    \/ UpdateMove
    \/ UpdateEat
    \/ GenerateRetry
    \/ GenerateAccept
    \/ reset

Spec == Init /\ [][Next]_vars

\* the game on the screen of the program
InitReal == GameInit(SCREEN_WIDTH, SCREEN_HEIGHT)

Abs(n) == IF n < 0 THEN -n ELSE n

NearStart ==
    Abs(body[1][1] - width \div 2) + Abs(body[1][2] - height \div 2)
        <= RealReach * BLOCK_SIZE

NextReal ==
    \/ HandleInput
    \/ NearStart /\ UpdateMove
    \/ NearStart /\ UpdateEat
    \/ GenerateRetry
    \/ GenerateAccept

SpecReal == InitReal /\ [][NextReal]_vars

-----------------------------------------------------------------------------
(* What the properties below speak of *)

\* the opposite of a direction: its negation
Opposite(d) == <<-d[1], -d[2]>>

\* the key that asks for a direction
KeyOf(d) ==
    CASE d = UP    -> "K_UP"
      [] d = DOWN  -> "K_DOWN"
      [] d = LEFT  -> "K_LEFT"
      [] d = RIGHT -> "K_RIGHT"

\* the cells of the screen: cell-aligned positions inside it
InBounds(p) == 0 <= p[1] /\ p[1] < width /\ 0 <= p[2] /\ p[2] < height

AllCells ==
    {p \in (0..(width - 1)) \X (0..(height - 1)) :
        p[1] % BLOCK_SIZE = 0 /\ p[2] % BLOCK_SIZE = 0}

Cells(b) == {b[i] : i \in 1..Len(b)}

\* the head is outside the screen or on another segment of the body
Collided(b) ==
    \/ ~InBounds(b[1])
    \/ \E i \in 2..Len(b) : b[i] = b[1]

\* a step in which Game.update returns: either it did not eat, or the food
\* it asked for has been placed
UpdateReturns == pc \in {"update", "generate"} /\ pc' \notin {"update", "generate"}

\* a step in which Game.update calls Snake.move
Advances == pc = "update" /\ pc' # "update"

-----------------------------------------------------------------------------
\* C1: a single turn request d (one KEYDOWN handled by handle_input, which
\* calls change_direction(d)) leaves the heading as it is when d is the
\* opposite of the heading and sets it to d otherwise; the body and the
\* growth flag are not changed.
C1_TurnRule ==
    [][\A d \in Directions :
          HandleInputOn(<<KeyOf(d)>>) =>
              /\ direction' = (IF d = Opposite(direction) THEN direction ELSE d)
              /\ body' = body
              /\ grow' = grow]_vars

\* a turn has been taken: the heading is no longer the first one, before any move
C1_Witness ==
    /\ pc = "update"
    /\ body = SnakeInitBody(width, height)
    /\ direction = UP

\* C2: whatever turn requests are handled between two moves, the head never
\* moves onto the cell that held the second segment before the move.
C2_NoReversal ==
    [][Advances /\ Len(body) >= 2 => body'[1] # body[2]]_vars

\* C3: when Game.update returns, the game has been ended by it exactly when
\* the head of the moved body is outside the screen or on another segment;
\* a game that was running and did not collide is still running.
C3_TerminalIffCollided ==
    [][UpdateReturns => (running' = (running /\ ~Collided(body')))]_vars

\* the game is over with the head beyond the right wall
C3_Witness ==
    /\ pc = "show_game_over"
    /\ ~running
    /\ body[1][1] >= width

\* C4: once the game is not running, a further Game.update leaves the body,
\* the food and the score as they are.
C4_TerminalFrozen ==
    [][~running /\ pc \in {"update", "generate"} =>
          body' = body /\ food' = food /\ score' = score]_vars

\* C5: every Game.update returns: whenever the loop of
\* Food.generate_valid_position runs, some draw is free and ends it - also
\* when the snake has just eaten with its body on every cell of the screen.
C5_PlacementReturns ==
    pc = "generate" => ENABLED GenerateAccept

\* C6: between two operations of a running game the food is on no cell of
\* the snake's body.
C6_FoodOffBody ==
    running /\ pc # "generate" => food \notin Cells(body)

\* the game runs on after a food was eaten and a new one placed
C6_Witness ==
    /\ running
    /\ pc = "handle_input"
    /\ score >= 1

\* C7: Game.update adds exactly 1 to the score when the moved head is on the
\* food and leaves the score as it is otherwise; no operation but reset
\* lowers the score.
C7_ScoreCountsFood ==
    [][\/ reset
       \/ /\ Advances => score' = (IF body'[1] = food THEN score + 1 ELSE score)
          /\ ~Advances => score' = score
          /\ score' >= score]_vars

\* two foods have been eaten
C7_Witness ==
    /\ score = 2
    /\ pc = "generate"

\* C8: Snake.move puts head + direction in front of the body; without
\* pending growth it drops the tail and the length stays; with pending growth
\* it keeps the tail, the length grows by exactly 1, and the flag is cleared
\* (an update that eats in the same step sets the flag again).
C8_Advance ==
    [][Advances =>
          LET new_head == <<body[1][1] + direction[1], body[1][2] + direction[2]>>
          IN  /\ body'[1] = new_head
              /\ ~grow => /\ body' = <<new_head>> \o SubSeq(body, 1, Len(body) - 1)
                          /\ Len(body') = Len(body)
              /\ grow  => /\ body' = <<new_head>> \o body
                          /\ Len(body') = Len(body) + 1
              /\ new_head # food => grow' = FALSE]_vars

\* the snake has grown by one segment and the flag is cleared
C8_Witness ==
    /\ Len(body) = 4
    /\ score = 1
    /\ ~grow

Distinct(b) == \A i, j \in 1..Len(b) : i # j => b[i] # b[j]

\* C9: when Game.update returns, the body holds no position twice unless
\* the update reported a collision (check_collision holds and the game is
\* stopped); in a running game the positions of the body are pairwise distinct.
C9_BodyDistinct ==
    [][/\ UpdateReturns =>
            \/ Distinct(body')
            \/ check_collision(body', width, height) /\ ~running'
       /\ running' => Distinct(body')]_vars

\* the head ran into a segment further back than the neck: the game is over
C9_Witness ==
    /\ pc = "show_game_over"
    /\ ~running
    /\ \E i \in 4..Len(body) : body[i] = body[1]

\* C10: the positions Food.generate_valid_position can return are exactly
\* the cells of the screen that are not on the body, and what it returns,
\* in Game.update and in reset, is such a cell.
C10_PlacementRange ==
    [][/\ pc = "generate" =>
            \A c \in AllCells \cup Cells(body) \cup Draws(width, height) :
                (ENABLED GenerateAcceptAt(c)) <=> (c \in AllCells \ Cells(body))
       /\ (pc = "generate" /\ pc' # "generate") \/ reset =>
            food' \in AllCells \ Cells(body')]_vars

\* the loop of the placement runs with two or more cells free
C10_Witness ==
    /\ pc = "generate"
    /\ Cardinality(AllCells \ Cells(body)) >= 2

\* C11: a game that is not running is never running again after
\* handle_input or update; only reset (or a new construction) starts it again.
C11_TerminalIrreversible ==
    [][reset \/ (~running => ~running')]_vars

\* a game stopped by a quit request stayed stopped through the update after it
C11_Witness ==
    /\ pc = "show_game_over"
    /\ ~running
    /\ ~Collided(body)

\* the state a game starts in, on the screen width x height: running, score
\* 0, no growth pending, heading right, three segments from the centre
\* leftwards, the food on a cell off the body
StartState ==
    /\ pc = "handle_input"
    /\ running = TRUE
    /\ score = 0
    /\ grow = FALSE
    /\ direction = <<BLOCK_SIZE, 0>>
    /\ body = << <<width \div 2, height \div 2>>,
                 <<width \div 2 - BLOCK_SIZE, height \div 2>>,
                 <<width \div 2 - 2 * BLOCK_SIZE, height \div 2>> >>
    /\ food \in AllCells \ Cells(body)

\* C12: the construction and every reset, from whatever state, give the
\* start state; on the program's screen of 800 x 600 with cells of 20 its
\* body is [(400,300), (380,300), (360,300)].
C12_ResetIsConstruction ==
    /\ SnakeInitBody(SCREEN_WIDTH, SCREEN_HEIGHT)
           = << <<400, 300>>, <<380, 300>>, <<360, 300>> >>
    /\ StartState
    /\ [][reset => StartState']_vars

\* a game that was played and is over, from which reset starts again
C12_Witness ==
    /\ pc = "show_game_over"
    /\ score >= 1
    /\ Len(body) >= 4
    /\ ENABLED reset

\* C13: when a move puts the head on the cell that held the tail before the
\* move, the update reports no collision if no growth was pending (the tail
\* had left the cell) and reports a collision if growth was pending (the
\* tail stayed).
C13_TailCell ==
    [][Advances /\ body'[1] = body[Len(body)] =>
          IF grow
          THEN Collided(body') /\ running' = FALSE /\ pc' = "show_game_over"
          ELSE ~Collided(body') /\ running' = running]_vars

\* the head is on the tail that a pending growth kept: the game is over
C13_Witness ==
    /\ pc = "show_game_over"
    /\ ~running
    /\ Len(body) >= 5
    /\ body[1] = body[Len(body)]

\* the other case: a move without pending growth is about to put the head
\* on the cell the tail leaves
C13_WitnessNoGrowth ==
    /\ running
    /\ ~grow
    /\ ENABLED (UpdateMove /\ body'[1] = body[Len(body)] /\ running')

Adjacent(p, q) ==
    \/ p[1] = q[1] /\ (p[2] - q[2] = BLOCK_SIZE \/ q[2] - p[2] = BLOCK_SIZE)
    \/ p[2] = q[2] /\ (p[1] - q[1] = BLOCK_SIZE \/ q[1] - p[1] = BLOCK_SIZE)

\* C14: in every reachable state any two consecutive segments of the body
\* differ by exactly one cell in exactly one coordinate.
C14_SegmentsAdjacent ==
    \A i \in 1..(Len(body) - 1) : Adjacent(body[i], body[i + 1])

\* a grown snake with a bend behind its head
C14_Witness ==
    /\ Len(body) >= 5
    /\ body[1][1] # body[2][1]
    /\ body[2][2] # body[3][2]

\* C15: the growth is a flag, not a counter: a move grows the body by
\* exactly one segment when the flag is set and by none when it is not; the
\* update sets the flag when it eats, whether or not it was set before the
\* update, and a move that does not eat leaves it cleared, so that the move
\* after a growth does not grow unless a food was eaten in between.
C15_GrowthIsFlag ==
    /\ [](grow \in BOOLEAN)
    /\ [][Advances =>
            /\ Len(body') = Len(body) + (IF grow THEN 1 ELSE 0)
            /\ grow' = (body'[1] = food)]_vars

\* two foods eaten, both growths done, none pending
C15_Witness ==
    /\ pc = "handle_input"
    /\ score = 2
    /\ Len(body) = 5
    /\ grow = FALSE

\* C16: in every reachable state the body has 3 + score segments, less one
\* while a growth is pending: the snake grows on the move after the one
\* that ate.
C16_LengthIsScore ==
    Len(body) = 3 + score - (IF grow THEN 1 ELSE 0)

\* three foods eaten and three growths done
C16_Witness ==
    /\ score = 3
    /\ Len(body) = 6
    /\ grow = FALSE

\* C17: an update of a running game that eats reports no collision: while
\* the food it ate is being replaced check_collision is false on the moved
\* body (the head is inside the screen and on no other segment), and the
\* game is running when the update returns.
C17_EatWithoutCollision ==
    /\ [](pc = "generate" /\ running =>
            ~check_collision(body, width, height) /\ ~Collided(body))
    /\ [][pc = "generate" /\ running =>
            running' = TRUE /\ pc' \in {"generate", "handle_input"}]_vars

\* a running game has eaten four times
C17_Witness ==
    /\ pc = "handle_input"
    /\ running
    /\ score = 4

\* C18: in a running game every segment is inside the screen; a segment
\* outside the screen is the head, and only of a game that is over.
C18_BodyInsideScreen ==
    /\ running => \A i \in 1..Len(body) : InBounds(body[i])
    /\ \A i \in 2..Len(body) : InBounds(body[i])
    /\ ~InBounds(body[1]) => ~running /\ pc = "show_game_over"

\* the head is above the upper wall and the game is over
C18_Witness ==
    /\ pc = "show_game_over"
    /\ ~running
    /\ body[1][2] < 0
    /\ \A i \in 2..Len(body) : InBounds(body[i])

\* C19: handle_input changes the heading and the running flag only, never
\* the body, the growth flag, the food or the score; update never changes
\* the heading; a quit request alone (QUIT or ESC) stops the game and
\* leaves heading, body, food and score as they were.
C19_DisjointEffects ==
    [][\/ reset
       \/ /\ pc = "handle_input" =>
               body' = body /\ grow' = grow /\ food' = food /\ score' = score
          /\ pc \in {"update", "generate"} => direction' = direction
          /\ \A e \in {"QUIT", "K_ESCAPE"} :
               HandleInputOn(<<e>>) =>
                   /\ running' = FALSE
                   /\ direction' = direction
                   /\ body' = body /\ food' = food /\ score' = score]_vars

\* a quit request has been handled on a game in progress: the game is
\* stopped, the update after it has not run yet
C19_Witness ==
    /\ pc = "update"
    /\ ~running
    /\ score >= 1
    /\ food \notin Cells(body)

=============================================================================
